---- MODULE Spec2Model ----
(***************************************************************************)
(* The WebSocket connection manager and the per-connection message engine  *)
(* of eywa (package connections): the manager with its closed flag and its *)
(* shards, and for every connection the writer inbox (wch), the close      *)
(* signal (closewch), the reader stop signal (rch), the pending table      *)
(* (msgChans), the wait group, the reader task (rListen), the writer task  *)
(* (wListen) and the send calls (sendMessage).                             *)
(*                                                                         *)
(* Every goroutine is a process with a program counter; one action is one  *)
(* step between two points where the goroutine can be observed by another. *)
(* A select that would block takes its timeout branch nondeterministically.*)
(***************************************************************************)
EXTENDS Integers, Sequences, FiniteSets, TLC

\* ------------------------------------------------------------------ bounds
MaxConns == 2          \* newConnection calls made on the manager
MaxCalls == 2          \* sendMessage calls made over all connections
MaxReads == 2          \* results the transports hand to readWsMessage
MaxClock == 1          \* largest value time.Now().UnixNano() takes in a run
MaxCloseCalls == 2     \* Close() calls counted per connection (saturating)
MaxSendConns == 1      \* connections sendMessage is called on (the first ones created)
MaxWork == 4           \* operations the environment starts in a run, of all kinds
NShards == 2           \* Config().WebSocketConnections.NShards
RequestQueueSize == 1  \* Config().WebSocketConnections.RequestQueueSize

Conns == 1..MaxConns
Calls == 1..MaxCalls
MsgIds == 0..MaxClock
Ids == {"a", "b"}
\* clock ticks between the previous reading of the clock and that of call c: the
\* clock is read first by the first call
TicksOf(c) == IF c = 1 THEN {0} ELSE {0, 1}
\* identifiers newConnection call k is made with: the first call uses "a", the
\* later ones any (the two identifiers hash to different shards)
IdsOf(k) == IF k = 1 THEN {"a"} ELSE Ids
Payloads == {"p", "q"}
ShardIdx == 0..(NShards - 1)
\* the messageType sendMessage is called with. SendResponse passes
\* ResponseMessage, which sendMessage and wListen treat as AsyncRequestMessage
\* (they only test messageType == SyncRequestMessage): "AsyncRequest" stands
\* for both
MessageTypes == {"AsyncRequest", "SyncRequest"}
NoCall == 0
NoConn == 0

VARIABLES
    mgr,      \* the manager: its closed flag and the position of close()
    shards,   \* per shard: position of shard.Close() and its snapshot
    wsconns,  \* per shard: identifier -> connection (NoConn when absent)
    evict,    \* connections replaced by register, to be closed out of band
    conns,    \* per newConnection call: the call's position and the engine it builds
    calls,    \* per sendMessage call: its position, its request, its result slot
    now,      \* the clock message ids are taken from
    reads,    \* transport read results handed out so far
    extOps    \* Close() calls made by code outside the package

vars == <<mgr, shards, wsconns, evict, conns, calls, now, reads, extOps>>

\* ------------------------------------------------------------------ helpers
Min(a, b) == IF a < b THEN a ELSE b

\* murmur3.New32 over the identifier bytes (seed 0), for the identifiers in use:
\* Sum32("a") = 0x3C2569B2, Sum32("b") = 0x95DE1E03, as <<high 16 bits, low 16 bits>>
Hash32(id) == IF id = "a" THEN <<15397, 27058>> ELSE <<38366, 7683>>

\* wscm.shards[hasher.Sum32() % uint32(len(wscm.shards))]
ShardOf(id) ==
    (((Hash32(id)[1] % NShards) * (65536 % NShards)) + (Hash32(id)[2] % NShards)) % NShards

NoFrame == [type |-> "none", id |-> 0, payload |-> ""]

\* &MessageResp{msg, err}
MessageResp(msg, err) == [msg |-> msg, err |-> err]

\* make(map[string]chan *MessageResp): msgId -> the call owning the slot
EmptyMsgChans == [i \in MsgIds |-> NoCall]

InitConn ==
    [ nc |-> "idle",          \* position of the newConnection call
      mclosedAtBegin |-> FALSE, \* what the call read from wscm.closed
      pre |-> FALSE,          \* the connection was established before the run began
      id |-> "a",             \* identifier
      once |-> FALSE,         \* closeOnce has run its function
      closed |-> FALSE,       \* c.closed
      closeCalls |-> 0,       \* Close() calls made (saturating)
      nWch |-> 0,             \* close(c.wch) executions
      nRch |-> 0,             \* close(c.rch) executions
      nSignal |-> 0,          \* sends on c.closewch
      nUnreg |-> 0,           \* c.shard.unregister(c) invocations
      wch |-> <<>>,           \* writer inbox: the calls whose MessageReq is queued
      accepted |-> <<>>,      \* the calls whose MessageReq the inbox took, in order
      closewch |-> 0,         \* values buffered in c.closewch
      wg |-> 0,               \* c.wg counter
      msgChans |-> EmptyMsgChans,
      rpc |-> "none",         \* reader task position
      rmsg |-> NoFrame,       \* frame the reader is processing
      rslot |-> NoCall,       \* slot found for it
      herr |-> "nil",         \* error argument of the handler call in progress
      wpc |-> "none",         \* writer task position
      wreq |-> NoCall,        \* request the writer is processing
      werr |-> "nil",         \* result of its sendWsMessage
      wsCloses |-> 0,         \* ws.Close() calls on the transport
      written |-> <<>>,       \* frames written to the transport
      hClose |-> 0,           \* handler invocations with a Close frame and nil error
      waited |-> FALSE ]      \* a Wait() call returned after Close() returned

InitCall ==
    [ pc |-> "idle", conn |-> NoConn, type |-> "AsyncRequest", msgId |-> 0,
      slot |-> <<>>,          \* respCh, capacity 1
      err |-> "none", payload |-> "",
      got |-> NoFrame,        \* the frame of the MessageResp the call received
      closedAtStart |-> FALSE ] \* Close() had run when the call began

Init ==
    /\ mgr = [closed |-> FALSE, pc |-> "idle"]
    /\ shards = [s \in ShardIdx |-> [pc |-> "idle", snap |-> {}]]
    /\ wsconns = [s \in ShardIdx |-> [i \in Ids |-> NoConn]]
    /\ evict = {}
    /\ conns = [k \in Conns |-> InitConn]
    /\ calls = [c \in Calls |-> InitCall]
    /\ now = 0
    /\ reads = 0
    /\ extOps = 0

\* operations the environment has started: newConnection calls, sendMessage
\* calls, frames and errors from the peers, the manager's close(), outside calls
Work ==
    Cardinality({k \in Conns : conns[k].nc # "idle" /\ ~conns[k].pre})
    + Cardinality({c \in Calls : calls[c].pc # "idle"})
    + reads + extOps + (IF mgr.pc # "idle" THEN 1 ELSE 0)

\* the process is running: no goroutine has ended in a panic nobody recovers,
\* which ends the process
Alive == \A k \in Conns : conns[k].rpc # "panicked"

\* ------------------------------------------------------------------ shard
\* shard.unregister(conn): remove only if the stored pointer equals conn
Unregister(m, k, id) ==
    IF m[ShardOf(id)][id] = k
    THEN [m EXCEPT ![ShardOf(id)][id] = NoConn]
    ELSE m

\* shard.register(conn), the map update: insert the new connection
Register(m, k, id) == [m EXCEPT ![ShardOf(id)][id] = k]

\* shard.findConnection(id) through wscm.findConnection(id)
FindConnection(id) == wsconns[ShardOf(id)][id]

\* shard.Count()
ShardCount(s) == Cardinality({i \in Ids : wsconns[s][i] # NoConn})

RECURSIVE SumCounts(_)
SumCounts(n) == IF n = 0 THEN 0 ELSE ShardCount(n - 1) + SumCounts(n - 1)

\* wscm.count()
Count == SumCounts(NShards)

\* ------------------------------------------------------------------ Close
\* the function Close() hands to closeOnce.Do
CloseBody(c) ==
    [c EXCEPT !.closed = TRUE,
              !.nWch = @ + 1,
              !.nRch = @ + 1,
              !.closewch = @ + 1,
              !.nSignal = @ + 1,
              !.nUnreg = @ + 1]

\* Close() without the once guard
CloseEveryTime(c) ==
    CloseBody([c EXCEPT !.once = TRUE,
                        !.closeCalls = Min(@ + 1, MaxCloseCalls)])

\* WebSocketConnection.Close(): the record of the connection after the call
Close(c) ==
    IF c.once
    THEN [c EXCEPT !.closeCalls = Min(@ + 1, MaxCloseCalls)]
    ELSE CloseBody([c EXCEPT !.once = TRUE,
                             !.closeCalls = Min(@ + 1, MaxCloseCalls)])

\* a Close() that removes whatever the shard holds under the identifier
MapAfterCloseById(k) ==
    IF conns[k].nUnreg # Close(conns[k]).nUnreg
    THEN [wsconns EXCEPT ![ShardOf(conns[k].id)][conns[k].id] = NoConn]
    ELSE wsconns

\* the shard maps after Close() on connection k (c.shard.unregister(c) in the body)
MapAfterClose(k) ==
    IF conns[k].nUnreg # Close(conns[k]).nUnreg
    THEN Unregister(wsconns, k, conns[k].id)
    ELSE wsconns

WchClosed(c) == c.nWch > 0
RchClosed(c) == c.nRch > 0

\* ------------------------------------------------------------------ newConnection
\* newConnection, after reading the closed flag as true: ws.Close(), closedWscmErr
NewConnRefused(k) ==
    /\ conns' = [conns EXCEPT ![k].nc = "refused",
                              ![k].mclosedAtBegin = TRUE,
                              ![k].wsCloses = @ + 1]
    /\ UNCHANGED <<mgr, shards, wsconns, evict, calls, now, reads, extOps>>

\* newConnection that never looks at the closed flag
NewConnCheckUnguarded(k, id) ==
    /\ Alive
    /\ conns[k].nc = "idle"
    /\ \A j \in Conns : j < k => conns[j].nc # "idle"
    /\ Work < MaxWork
    /\ conns' = [conns EXCEPT ![k].nc = "ctor",
                              ![k].mclosedAtBegin = mgr.closed,
                              ![k].id = id]
    /\ UNCHANGED <<mgr, shards, wsconns, evict, calls, now, reads, extOps>>

\* newConnection up to the construction of the engine: the closed check, the
\* choice of the shard, &WebSocketConnection{...}
NewConnCheck(k, id) ==
    /\ Alive
    /\ conns[k].nc = "idle"
    /\ \A j \in Conns : j < k => conns[j].nc # "idle"
    /\ Work < MaxWork
    /\ IF mgr.closed
       THEN NewConnRefused(k)
       ELSE /\ conns' = [conns EXCEPT ![k].nc = "ctor", ![k].id = id]
            /\ UNCHANGED <<mgr, shards, wsconns, evict, calls, now, reads, extOps>>

\* shard.register(conn): the connection stored under the identifier is replaced
\* and left to be closed out of band; then registry.update(conn), which the
\* registry may refuse
ShardRegister(k, accepted) ==
    /\ Alive
    /\ conns[k].nc = "ctor"
    /\ LET old == FindConnection(conns[k].id) IN
       /\ wsconns' = Register(wsconns, k, conns[k].id)
       /\ evict' = IF old # NoConn /\ old # k THEN evict \cup {old} ELSE evict
    /\ conns' = [conns EXCEPT ![k].nc = IF accepted THEN "regok" ELSE "regerr"]
    /\ UNCHANGED <<mgr, shards, calls, now, reads, extOps>>

\* the replaced connection is closed by register, outside the shard lock
EvictClose(k) ==
    /\ Alive
    /\ k \in evict
    /\ evict' = evict \ {k}
    /\ wsconns' = MapAfterClose(k)
    /\ conns' = [conns EXCEPT ![k] = Close(@)]
    /\ UNCHANGED <<mgr, shards, calls, now, reads, extOps>>

\* a newConnection that returns the error of register without closing the engine
NewConnFailNoClose(k) ==
    /\ Alive
    /\ conns[k].nc = "regerr"
    /\ conns' = [conns EXCEPT ![k].nc = "failed"]
    /\ UNCHANGED <<mgr, shards, wsconns, evict, calls, now, reads, extOps>>

\* newConnection when register failed: conn.Close(); conn.Wait(); return nil, err
NewConnFail(k) ==
    /\ Alive
    /\ conns[k].nc = "regerr"
    /\ Close(conns[k]).wg = 0
    /\ wsconns' = MapAfterClose(k)
    /\ conns' = [conns EXCEPT ![k] = [Close(@) EXCEPT !.nc = "failed", !.waited = TRUE]]
    /\ UNCHANGED <<mgr, shards, evict, calls, now, reads, extOps>>

\* Start(): wg.Add(2); go rListen(); go wListen(); newConnection returns conn
Start(k) ==
    /\ Alive
    /\ conns[k].nc = "regok"
    /\ conns' = [conns EXCEPT ![k].nc = "ok",
                              ![k].wg = @ + 2,
                              ![k].rpc = "loop",
                              ![k].wpc = "loop"]
    /\ UNCHANGED <<mgr, shards, wsconns, evict, calls, now, reads, extOps>>

\* a connection other code can hold: returned by newConnection or found in a shard
Published(k) ==
    \/ conns[k].nc = "ok"
    \/ /\ conns[k].nc \in {"regok", "regerr", "failed"}
       /\ FindConnection(conns[k].id) = k

\* Close() called by code outside the package
ExternalClose(k) ==
    /\ Alive
    /\ Published(k)
    /\ Work < MaxWork
    /\ extOps' = extOps + 1
    /\ wsconns' = MapAfterClose(k)
    /\ conns' = [conns EXCEPT ![k] = Close(@)]
    /\ UNCHANGED <<mgr, shards, evict, calls, now, reads>>

\* ------------------------------------------------------------------ manager close
\* wscm.close(): wscm.closed.Set(true), one goroutine per shard
ManagerCloseBegin ==
    /\ Alive
    /\ mgr.pc = "idle"
    /\ Work < MaxWork
    /\ mgr' = [closed |-> TRUE, pc |-> "closing"]
    /\ shards' = [s \in ShardIdx |-> [shards[s] EXCEPT !.pc = "snapshot"]]
    /\ UNCHANGED <<wsconns, evict, conns, calls, now, reads, extOps>>

\* Close() on every connection of a set, one after the other
RECURSIVE CloseAll(_, _)
CloseAll(cs, S) ==
    IF S = {} THEN cs
    ELSE LET k == CHOOSE x \in S : TRUE IN
         CloseAll([cs EXCEPT ![k] = Close(@)], S \ {k})

\* shard.Close(): snapshot the map and close each connection of the snapshot;
\* with an empty snapshot there is nothing to wait for and the map is emptied
ShardCloseBegin(s) ==
    /\ Alive
    /\ shards[s].pc = "snapshot"
    /\ LET snap == {wsconns[s][i] : i \in Ids} \ {NoConn} IN
       /\ shards' = [shards EXCEPT ![s].pc = IF snap = {} THEN "done" ELSE "closing",
                                   ![s].snap = snap]
       /\ conns' = CloseAll(conns, snap)
       /\ wsconns' = [wsconns EXCEPT ![s] =
              [i \in Ids |-> IF wsconns[s][i] # NoConn /\ ~conns[wsconns[s][i]].once
                             THEN NoConn ELSE wsconns[s][i]]]
    /\ UNCHANGED <<mgr, evict, calls, now, reads, extOps>>

\* shard.Close(): every connection of the snapshot has been waited for; empty the map
ShardCloseEnd(s) ==
    /\ Alive
    /\ shards[s].pc = "closing"
    /\ \A k \in shards[s].snap : conns[k].wg = 0
    /\ shards' = [shards EXCEPT ![s].pc = "done", ![s].snap = {}]
    /\ conns' = [k \in Conns |-> IF k \in shards[s].snap
                                 THEN [conns[k] EXCEPT !.waited = TRUE]
                                 ELSE conns[k]]
    /\ wsconns' = [wsconns EXCEPT ![s] = [i \in Ids |-> NoConn]]
    /\ UNCHANGED <<mgr, evict, calls, now, reads, extOps>>

\* wscm.close(): wg.Wait(), wscm.Registry.Close(), return
ManagerCloseEnd ==
    /\ Alive
    /\ mgr.pc = "closing"
    /\ \A s \in ShardIdx : shards[s].pc = "done"
    /\ mgr' = [mgr EXCEPT !.pc = "done"]
    /\ UNCHANGED <<shards, wsconns, evict, conns, calls, now, reads, extOps>>

\* ------------------------------------------------------------------ sendMessage
\* the recover() of sendMessage: a send on the closed inbox panics and the call
\* returns "connection is closed"
Recovered(rec) ==
    [rec EXCEPT !.pc = "done", !.err = "ConnectionClosed"]

\* a first select whose send case takes the request whether or not the inbox is closed
OfferIgnoringClose(c, rec) ==
    IF Len(conns[rec.conn].wch) < RequestQueueSize
    THEN /\ conns' = [conns EXCEPT ![rec.conn].wch = Append(@, c),
                                   ![rec.conn].accepted = Append(@, c)]
         /\ calls' = [calls EXCEPT ![c] = [rec EXCEPT !.pc = "wait"]]
    ELSE /\ calls' = [calls EXCEPT ![c] = [rec EXCEPT !.pc = "enqueue"]]
         /\ UNCHANGED conns

\* first select, case c.wch <- &MessageReq{...}, for call c with record rec:
\* panic on a closed inbox, the request queued, or the call blocked on a full inbox
Offer(c, rec) ==
    IF WchClosed(conns[rec.conn])
    THEN /\ calls' = [calls EXCEPT ![c] = Recovered(rec)]
         /\ UNCHANGED conns
    ELSE IF Len(conns[rec.conn].wch) < RequestQueueSize
    THEN /\ conns' = [conns EXCEPT ![rec.conn].wch = Append(@, c),
                                   ![rec.conn].accepted = Append(@, c)]
         /\ calls' = [calls EXCEPT ![c] = [rec EXCEPT !.pc = "wait"]]
    ELSE /\ calls' = [calls EXCEPT ![c] = [rec EXCEPT !.pc = "enqueue"]]
         /\ UNCHANGED conns

\* sendMessage up to the first select: the message id from the clock, the
\* request, the result slot, and the first evaluation of the select
SendStart(c, k, t, tick) ==
    /\ Alive
    /\ calls[c].pc = "idle"
    /\ \A d \in Calls : d < c => calls[d].pc # "idle"
    /\ k <= MaxSendConns
    /\ Published(k)
    /\ Work < MaxWork
    /\ now + tick <= MaxClock
    /\ now' = now + tick
    /\ Offer(c, [calls[c] EXCEPT !.conn = k,
                                 !.type = t,
                                 !.msgId = now + tick,
                                 !.closedAtStart = conns[k].closed])
    /\ UNCHANGED <<mgr, shards, wsconns, evict, reads, extOps>>

\* first select of a call blocked on a full inbox: room was made, or the inbox
\* was closed
SendEnqueue(c) ==
    /\ Alive
    /\ calls[c].pc = "enqueue"
    /\ \/ WchClosed(conns[calls[c].conn])
       \/ Len(conns[calls[c].conn].wch) < RequestQueueSize
    /\ Offer(c, calls[c])
    /\ UNCHANGED <<mgr, shards, wsconns, evict, now, reads, extOps>>

\* first select, case <-time.After(timeout): the inbox stayed full
SendEnqueueTimeout(c) ==
    /\ Alive
    /\ calls[c].pc = "enqueue"
    /\ LET k == calls[c].conn IN
       /\ ~WchClosed(conns[k])
       /\ Len(conns[k].wch) >= RequestQueueSize
       /\ calls' = [calls EXCEPT ![c] = [@ EXCEPT !.pc = "done",
                                                  !.err = "RequestTimeout"]]
    /\ UNCHANGED <<mgr, shards, wsconns, evict, conns, now, reads, extOps>>

\* the deferred c.msgChans.delete(msgId) of a SyncRequest
DeferredDelete(c, m) ==
    IF calls[c].type = "SyncRequest"
    THEN [m EXCEPT ![calls[c].msgId] = NoCall]
    ELSE m

\* second select, case resp := <-respCh
SendReceive(c) ==
    /\ Alive
    /\ calls[c].pc = "wait"
    /\ calls[c].slot # <<>>
    /\ LET k == calls[c].conn
           resp == Head(calls[c].slot) IN
       /\ calls' = [calls EXCEPT ![c] =
              [@ EXCEPT !.pc = "done",
                        !.slot = <<>>,
                        !.err = resp.err,
                        !.payload = IF resp.msg # NoFrame THEN resp.msg.payload ELSE "",
                        !.got = resp.msg]]
       /\ conns' = [conns EXCEPT ![k].msgChans = DeferredDelete(c, @)]
    /\ UNCHANGED <<mgr, shards, wsconns, evict, now, reads, extOps>>

\* second select, case <-time.After(timeout)
SendResponseTimeout(c) ==
    /\ Alive
    /\ calls[c].pc = "wait"
    /\ LET k == calls[c].conn IN
       /\ calls' = [calls EXCEPT ![c] = [@ EXCEPT !.pc = "done",
                                                  !.err = "ResponseTimeout"]]
       /\ conns' = [conns EXCEPT ![k].msgChans = DeferredDelete(c, @)]
    /\ UNCHANGED <<mgr, shards, wsconns, evict, now, reads, extOps>>

\* ------------------------------------------------------------------ wListen
\* what sendWsMessage returns for a message other than Close
SendErrors == {"nil", "WebsocketError", "MarshalError"}

\* the frame of a request on the transport: the call that sent it
Frame(c) == [type |-> calls[c].type, id |-> calls[c].msgId, call |-> c]
CloseFrame == [type |-> "Close", id |-> 0, call |-> NoCall]

\* wListen: req, more := <-c.wch with more, then err := c.sendWsMessage(req.msg)
WriterSend(k, err) ==
    /\ Alive
    /\ conns[k].wpc = "loop"
    /\ conns[k].wch # <<>>
    /\ conns' = [conns EXCEPT ![k] =
           [@ EXCEPT !.wch = Tail(@),
                     !.wpc = "post",
                     !.wreq = Head(conns[k].wch),
                     !.werr = err,
                     !.written = IF err = "nil"
                                 THEN Append(@, Frame(Head(conns[k].wch)))
                                 ELSE @]]
    /\ UNCHANGED <<mgr, shards, wsconns, evict, calls, now, reads, extOps>>

\* a writer that completes the slot of every request, SyncRequest included
WriterPostCompletesSync(k) ==
    /\ Alive
    /\ conns[k].wpc = "post"
    /\ calls[conns[k].wreq].slot = <<>>
    /\ calls' = [calls EXCEPT ![conns[k].wreq].slot =
                     <<MessageResp(NoFrame, conns[k].werr)>>]
    /\ conns' = [conns EXCEPT ![k] = [@ EXCEPT !.wpc = "loop", !.wreq = NoCall, !.werr = "nil"]]
    /\ UNCHANGED <<mgr, shards, wsconns, evict, now, reads, extOps>>

\* a writer that calls Close() after any error of sendWsMessage
WriterPostClosesOnAnyError(k) ==
    /\ Alive
    /\ conns[k].wpc = "post"
    /\ LET c == conns[k].wreq
           err == conns[k].werr
           back == [conns[k] EXCEPT !.wpc = "loop", !.wreq = NoCall, !.werr = "nil"] IN
       IF err # "nil"
       THEN /\ calls[c].slot = <<>>
            /\ calls' = [calls EXCEPT ![c].slot = <<MessageResp(NoFrame, err)>>]
            /\ conns' = [conns EXCEPT ![k] = Close(back)]
            /\ wsconns' = MapAfterClose(k)
       ELSE IF calls[c].type = "SyncRequest"
       THEN /\ conns' = [conns EXCEPT ![k] = [back EXCEPT !.msgChans[calls[c].msgId] = c]]
            /\ UNCHANGED <<calls, wsconns>>
       ELSE /\ calls[c].slot = <<>>
            /\ calls' = [calls EXCEPT ![c].slot = <<MessageResp(NoFrame, "nil")>>]
            /\ conns' = [conns EXCEPT ![k] = back]
            /\ UNCHANGED wsconns
    /\ UNCHANGED <<mgr, shards, evict, now, reads, extOps>>

\* wListen after sendWsMessage: the error to the slot (and Close() on a
\* WebsocketError), or msgChans.put for a SyncRequest, or the empty response
WriterPost(k) ==
    /\ Alive
    /\ conns[k].wpc = "post"
    /\ LET c == conns[k].wreq
           err == conns[k].werr
           back == [conns[k] EXCEPT !.wpc = "loop", !.wreq = NoCall, !.werr = "nil"] IN
       IF err # "nil"
       THEN /\ calls[c].slot = <<>>
            /\ calls' = [calls EXCEPT ![c].slot = <<MessageResp(NoFrame, err)>>]
            /\ IF err = "WebsocketError"
               THEN /\ conns' = [conns EXCEPT ![k] = Close(back)]
                    /\ wsconns' = MapAfterClose(k)
               ELSE /\ conns' = [conns EXCEPT ![k] = back]
                    /\ UNCHANGED wsconns
       ELSE IF calls[c].type = "SyncRequest"
       THEN /\ conns' = [conns EXCEPT ![k] = [back EXCEPT !.msgChans[calls[c].msgId] = c]]
            /\ UNCHANGED <<calls, wsconns>>
       ELSE /\ calls[c].slot = <<>>
            /\ calls' = [calls EXCEPT ![c].slot = <<MessageResp(NoFrame, "nil")>>]
            /\ conns' = [conns EXCEPT ![k] = back]
            /\ UNCHANGED wsconns
    /\ UNCHANGED <<mgr, shards, evict, now, reads, extOps>>

\* what sendWsMessage does with the final Close frame: SetWriteDeadline fails and
\* it returns at once, or the frame is written and the transport closed (the
\* result of WriteMessage is overwritten by that of ws.Close())
CloseOutcomes == {"ok", "deadlineError"}

\* a writer that takes the close signal as soon as it is there, requests left
\* in the inbox or not
WriterFinalNoDrain(k, outcome) ==
    /\ Alive
    /\ conns[k].wpc = "loop"
    /\ conns[k].closewch > 0
    /\ conns' = [conns EXCEPT ![k] =
           [@ EXCEPT !.closewch = @ - 1,
                     !.written = IF outcome = "ok" THEN Append(@, CloseFrame) ELSE @,
                     !.wsCloses = IF outcome = "ok" THEN @ + 1 ELSE @,
                     !.wpc = "done",
                     !.wg = @ - 1]]
    /\ UNCHANGED <<mgr, shards, wsconns, evict, calls, now, reads, extOps>>

\* wListen with the inbox closed and drained: <-c.closewch, then
\* sendWsMessage(Close): SetWriteDeadline, WriteMessage, ws.Close(); return
WriterFinal(k, outcome) ==
    /\ Alive
    /\ conns[k].wpc = "loop"
    /\ conns[k].wch = <<>>
    /\ WchClosed(conns[k])
    /\ conns[k].closewch > 0
    /\ conns' = [conns EXCEPT ![k] =
           [@ EXCEPT !.closewch = @ - 1,
                     !.written = IF outcome = "ok" THEN Append(@, CloseFrame) ELSE @,
                     !.wsCloses = IF outcome = "ok" THEN @ + 1 ELSE @,
                     !.wpc = "done",
                     !.wg = @ - 1]]
    /\ UNCHANGED <<mgr, shards, wsconns, evict, calls, now, reads, extOps>>

\* ------------------------------------------------------------------ rListen
\* what readWsMessage can return: a WebsocketError (read deadline, read), an
\* Unmarshal error, or a frame
ReadResults ==
    {[kind |-> x, id |-> 0, payload |-> ""] :
        x \in {"WebsocketError", "UnmarshalError", "Close", "Request"}}
    \cup {[kind |-> "Response", id |-> i, payload |-> p] : i \in MsgIds, p \in Payloads}

\* how a call of the handler c.h ends: it returns, or it panics
HandlerResults == {"returns", "panics"}

\* wg.Done() of a task that returns
TaskDone(c) == [c EXCEPT !.wg = @ - 1]

\* rListen: the select on c.rch; closed: return, default: go on to read
ReaderSelect(k) ==
    /\ Alive
    /\ conns[k].rpc = "loop"
    /\ conns' = [conns EXCEPT ![k] =
           IF RchClosed(@)
           THEN TaskDone([@ EXCEPT !.rpc = "done"])
           ELSE [@ EXCEPT !.rpc = "read"]]
    /\ UNCHANGED <<mgr, shards, wsconns, evict, calls, now, reads, extOps>>

\* the reader about to call c.h(c, message, err)
Handle(c, msg, err) == [c EXCEPT !.rpc = "handler", !.rmsg = msg, !.herr = err]

\* rListen on a Close frame, after c.h(c, message, nil): c.Close(); return
ReaderOnClose(c) == TaskDone(Close([c EXCEPT !.rpc = "done"]))

\* rListen on a WebsocketError, after c.h(c, nil, err): c.Close(); return
ReaderOnError(c) == TaskDone(Close([c EXCEPT !.rpc = "done"]))

\* rListen on a Response frame: c.msgChans.find(message.MessageId); not found:
\* c.h(c, message, errors.New("unexpected response ..."))
ReaderOnResponse(c, res) ==
    IF c.msgChans[res.id] # NoCall
    THEN [c EXCEPT !.rpc = "found",
                   !.rmsg = [type |-> "Response", id |-> res.id, payload |-> res.payload],
                   !.rslot = c.msgChans[res.id]]
    ELSE Handle(c, [type |-> "Response", id |-> res.id, payload |-> res.payload],
                "UnexpectedResponse")

\* rListen, default branch: readWsMessage returns and the frame is dispatched,
\* up to the call of the handler
ReaderRead(k, res) ==
    /\ Alive
    /\ conns[k].rpc = "read"
    /\ reads < MaxReads
    /\ Work < MaxWork
    /\ reads' = reads + 1
    /\ conns' = [conns EXCEPT ![k] =
           CASE res.kind \in {"WebsocketError", "UnmarshalError"} ->
                    Handle(@, NoFrame, res.kind)
             [] res.kind = "Close" ->
                    Handle([@ EXCEPT !.hClose = @ + 1],
                           [type |-> "Close", id |-> 0, payload |-> ""], "nil")
             [] res.kind = "Response" -> ReaderOnResponse(@, res)
             [] OTHER -> Handle(@, [type |-> "Request", id |-> 0, payload |-> ""], "nil")]
    /\ UNCHANGED <<mgr, shards, wsconns, evict, calls, now, extOps>>

\* a reader that leaves the entry in the pending table
ReaderDeleteKeepsEntry(k) ==
    /\ Alive
    /\ conns[k].rpc = "found"
    /\ conns' = [conns EXCEPT ![k].rpc = "deliver"]
    /\ UNCHANGED <<mgr, shards, wsconns, evict, calls, now, reads, extOps>>

\* rListen, found: c.msgChans.delete(message.MessageId)
ReaderDelete(k) ==
    /\ Alive
    /\ conns[k].rpc = "found"
    /\ conns' = [conns EXCEPT ![k] =
           [@ EXCEPT !.rpc = "deliver", !.msgChans[conns[k].rmsg.id] = NoCall]]
    /\ UNCHANGED <<mgr, shards, wsconns, evict, calls, now, reads, extOps>>

\* rListen, found: ch <- &MessageResp{msg: message}, up to the call of the handler
ReaderDeliver(k) ==
    /\ Alive
    /\ conns[k].rpc = "deliver"
    /\ calls[conns[k].rslot].slot = <<>>
    /\ calls' = [calls EXCEPT ![conns[k].rslot].slot =
                     <<MessageResp(conns[k].rmsg, "nil")>>]
    /\ conns' = [conns EXCEPT ![k] = [Handle(@, @.rmsg, "nil") EXCEPT !.rslot = NoCall]]
    /\ UNCHANGED <<mgr, shards, wsconns, evict, now, reads, extOps>>

\* the reader after a handler call that returned: Close() and return on a
\* WebsocketError and on a Close frame, else the next iteration
AfterHandler(c) ==
    LET back == [c EXCEPT !.rmsg = NoFrame, !.herr = "nil"] IN
    IF c.herr = "WebsocketError" THEN ReaderOnError(back)
    ELSE IF c.rmsg.type = "Close" THEN ReaderOnClose(back)
    ELSE [back EXCEPT !.rpc = "loop"]

\* c.h(c, message, err) ends. rListen has no recover: a panic of the handler
\* unwinds the goroutine (the deferred c.wg.Done() runs) and ends the process
ReaderHandler(k, hres) ==
    /\ Alive
    /\ conns[k].rpc = "handler"
    /\ IF hres = "panics"
       THEN /\ conns' = [conns EXCEPT ![k] = TaskDone([@ EXCEPT !.rpc = "panicked"])]
            /\ UNCHANGED wsconns
       ELSE /\ conns' = [conns EXCEPT ![k] = AfterHandler(@)]
            /\ wsconns' = IF AfterHandler(conns[k]).rpc = "done"
                          THEN MapAfterClose(k)
                          ELSE wsconns
    /\ UNCHANGED <<mgr, shards, evict, calls, now, reads, extOps>>

\* ------------------------------------------------------------------ specification
Reader(k) ==
    \/ ReaderSelect(k)
    \/ \E res \in ReadResults : ReaderRead(k, res)
    \/ ReaderDelete(k)
    \/ ReaderDeliver(k)
    \/ \E hres \in HandlerResults : ReaderHandler(k, hres)

Writer(k) ==
    \/ \E err \in SendErrors : WriterSend(k, err)
    \/ WriterPost(k)
    \/ \E outcome \in CloseOutcomes : WriterFinal(k, outcome)

Next ==
    \/ \E k \in Conns : \E id \in IdsOf(k) : NewConnCheck(k, id)
    \/ \E k \in Conns, accepted \in BOOLEAN : ShardRegister(k, accepted)
    \/ \E k \in Conns : EvictClose(k)
    \/ \E k \in Conns : NewConnFail(k)
    \/ \E k \in Conns : Start(k)
    \/ \E k \in Conns : ExternalClose(k)
    \/ ManagerCloseBegin
    \/ \E s \in ShardIdx : ShardCloseBegin(s)
    \/ \E s \in ShardIdx : ShardCloseEnd(s)
    \/ ManagerCloseEnd
    \/ \E c \in Calls, k \in Conns, t \in MessageTypes : \E tick \in TicksOf(c) : SendStart(c, k, t, tick)
    \/ \E c \in Calls : SendEnqueue(c)
    \/ \E c \in Calls : SendEnqueueTimeout(c)
    \/ \E c \in Calls : SendReceive(c)
    \/ \E c \in Calls : SendResponseTimeout(c)
    \/ \E k \in Conns : Reader(k)
    \/ \E k \in Conns : Writer(k)

Spec == Init /\ [][Next]_vars

\* the tasks run when they can: a started writer task is scheduled, every
\* transport write returns by its deadline, and a call of the handler ends
FairSpec ==
    /\ Spec
    /\ \A k \in Conns : WF_vars(Writer(k))
    /\ \A k \in Conns : WF_vars(\E hres \in HandlerResults : ReaderHandler(k, hres))

\* The engine of one connection at work: the first connection is there,
\* registered and started, when the run begins, and the environment spends
\* its operations on send calls, on what the peer sends, and on Close().
StartedConn ==
    [InitConn EXCEPT !.pre = TRUE, !.nc = "ok", !.wg = 2, !.rpc = "loop", !.wpc = "loop"]

SendInit ==
    /\ mgr = [closed |-> FALSE, pc |-> "idle"]
    /\ shards = [s \in ShardIdx |-> [pc |-> "idle", snap |-> {}]]
    /\ wsconns = Register([s \in ShardIdx |-> [i \in Ids |-> NoConn]], 1, InitConn.id)
    /\ evict = {}
    /\ conns = [k \in Conns |-> IF k = 1 THEN StartedConn ELSE InitConn]
    /\ calls = [c \in Calls |-> InitCall]
    /\ now = 0
    /\ reads = 0
    /\ extOps = 0

SendNext ==
    \/ \E c \in Calls, t \in MessageTypes : \E tick \in TicksOf(c) : SendStart(c, 1, t, tick)
    \/ \E c \in Calls : SendEnqueue(c)
    \/ \E c \in Calls : SendEnqueueTimeout(c)
    \/ \E c \in Calls : SendReceive(c)
    \/ \E c \in Calls : SendResponseTimeout(c)
    \/ Reader(1)
    \/ Writer(1)
    \/ ExternalClose(1)

SendSpec == SendInit /\ [][SendNext]_vars

\* ------------------------------------------------------------------ claims
Running(k) ==
    \/ conns[k].rpc \notin {"none", "done", "panicked"}
    \/ conns[k].wpc \notin {"none", "done"}

\* C1: whatever the number of Close() calls and whoever makes them, the writer
\* inbox is closed at most once, reader_stop is closed at most once, at most one
\* signal is put on the one-slot close channel, unregister is invoked at most
\* once; and as soon as one Close() call has been made each has happened
\* exactly once.
C1_CloseOnce ==
    \A k \in Conns :
        /\ conns[k].nWch <= 1
        /\ conns[k].nRch <= 1
        /\ conns[k].nSignal <= 1
        /\ conns[k].closewch <= 1
        /\ conns[k].nUnreg <= 1
        /\ conns[k].closeCalls > 0 =>
              /\ conns[k].nWch = 1
              /\ conns[k].nRch = 1
              /\ conns[k].nSignal = 1
              /\ conns[k].nUnreg = 1
              /\ conns[k].closed

C1_Witness ==
    \E k \in Conns : conns[k].closeCalls >= 2 /\ conns[k].nWch = 1 /\ conns[k].nUnreg = 1

\* C2: a SendSyncRequest call that returns a nil error returns the payload of a
\* Response frame the reader received under the call's message id, and the
\* call's entry of the pending table was removed before the response was put
\* into the slot; the only nil-error message a SyncRequest's slot ever holds is
\* such a Response (the writer never completes it).
C2_SyncSuccess ==
    \A c \in Calls :
        calls[c].type = "SyncRequest" =>
            /\ (calls[c].pc = "done" /\ calls[c].err = "nil") =>
                  /\ calls[c].got.type = "Response"
                  /\ calls[c].got.id = calls[c].msgId
                  /\ calls[c].got.payload = calls[c].payload
                  /\ conns[calls[c].conn].msgChans[calls[c].msgId] # c
            /\ (calls[c].slot # <<>> /\ Head(calls[c].slot).err = "nil") =>
                  /\ Head(calls[c].slot).msg.type = "Response"
                  /\ Head(calls[c].slot).msg.id = calls[c].msgId
                  /\ conns[calls[c].conn].msgChans[calls[c].msgId] # c

C2_Witness ==
    \E c \in Calls :
        /\ calls[c].type = "SyncRequest"
        /\ calls[c].pc = "done"
        /\ calls[c].err = "nil"
        /\ calls[c].payload = "q"

\* C3: once a SendSyncRequest call has returned ResponseTimeout, the pending
\* table holds no entry for the call's message id.
C3_NoEntryAfterTimeout ==
    \A c \in Calls :
        (calls[c].type = "SyncRequest" /\ calls[c].pc = "done"
            /\ calls[c].err = "ResponseTimeout") =>
            conns[calls[c].conn].msgChans[calls[c].msgId] = NoCall

\* C4: a SendSyncRequest call that began on an open connection and returns
\* after Close() has run on it returns the ConnectionClosed error.
C4_ClosedDuringCall ==
    [][\A c \in Calls :
          (/\ calls[c].pc \in {"enqueue", "wait"}
           /\ calls[c].type = "SyncRequest"
           /\ ~calls[c].closedAtStart
           /\ conns[calls[c].conn].closed
           /\ calls'[c].pc = "done")
          => calls'[c].err = "ConnectionClosed"]_vars

\* C5: a send call of any kind that begins after Close() has
\* completed returns ConnectionClosed; its request is never in the writer
\* inbox, never in the writer's hands, never in the pending table, never
\* written to the transport.
C5_SendAfterClose ==
    \A c \in Calls :
        calls[c].closedAtStart =>
            /\ calls[c].pc = "done"
            /\ calls[c].err = "ConnectionClosed"
            /\ \A i \in 1..Len(conns[calls[c].conn].wch) : conns[calls[c].conn].wch[i] # c
            /\ conns[calls[c].conn].wreq # c
            /\ \A m \in MsgIds : conns[calls[c].conn].msgChans[m] # c
            /\ \A i \in 1..Len(conns[calls[c].conn].written) :
                   conns[calls[c].conn].written[i].call # c

C5_Witness ==
    \E c \in Calls :
        /\ calls[c].closedAtStart
        /\ calls[c].pc = "done"
        /\ calls[c].type = "AsyncRequest"

\* C6: the reader hands a Close frame from the peer to the handler once, with a
\* nil error; once that handler call is over Close() has run and the reader has
\* returned; and from the call on the writer task exits too, the wait group
\* reaches zero and Wait() returns.
C6_PeerClose ==
    /\ [][\A k \in Conns :
             /\ conns'[k].hClose <= 1
             /\ (conns'[k].hClose = 1 /\ conns'[k].rpc # "handler") =>
                   /\ conns'[k].closed
                   /\ conns'[k].rpc = "done"]_vars
    /\ \A k \in Conns :
          (conns[k].hClose = 1) ~>
              (conns[k].wg = 0 /\ conns[k].rpc = "done" /\ conns[k].wpc = "done")

\* C7: once Close() and then Wait() have returned on a connection, neither its
\* reader task nor its writer task is running, then or later.
C7_NoTaskAfterWait ==
    \A k \in Conns : (conns[k].closed /\ conns[k].waited) => ~Running(k)

\* C8: the transport is never closed twice, and it has been closed once when
\* newConnection has returned an error or the writer task has exited.
C8_TransportClosedOnce ==
    \A k \in Conns :
        /\ conns[k].wsCloses <= 1
        /\ (conns[k].nc \in {"refused", "failed"} \/ conns[k].wpc = "done") =>
              conns[k].wsCloses = 1

\* C9: after the manager's close() has returned no reader or writer task is
\* running and count() is 0.
C9_NothingAfterManagerClose ==
    mgr.pc = "done" => (Count = 0 /\ \A k \in Conns : ~Running(k))

\* C10: the closed flag never goes back to false, and a newConnection call that
\* finds it true closes its transport once, returns ManagerClosed, is in no
\* shard and has no task.
C10_ManagerClosed ==
    [][/\ mgr.closed => mgr'.closed
       /\ \A k \in Conns :
             conns'[k].mclosedAtBegin =>
                 /\ conns'[k].nc = "refused"
                 /\ conns'[k].wsCloses = 1
                 /\ \A s \in ShardIdx, i \in Ids : wsconns'[s][i] # k
                 /\ conns'[k].rpc = "none"
                 /\ conns'[k].wpc = "none"
                 /\ conns'[k].wg = 0]_vars

C10_Witness ==
    \E k \in Conns : conns[k].mclosedAtBegin /\ conns[k].nc = "refused" /\ mgr.pc = "done"

\* the connections the shards hold under identifier i, whatever the shard and the key
HeldUnder(m, cs, i) ==
    {k \in Conns : cs[k].id = i /\ \E s \in ShardIdx, j \in Ids : m[s][j] = k}

C12_OneShard ==
    /\ [](\A s \in ShardIdx, i \in Ids :
            wsconns[s][i] # NoConn =>
                /\ s = ShardOf(i)
                /\ conns[wsconns[s][i]].id = i)
    /\ [][\A k \in Conns :
            (conns[k].nc = "ctor" /\ conns'[k].nc \in {"regok", "regerr"}
                /\ FindConnection(conns[k].id) = NoConn) =>
                Count' = Count + 1]_vars
    /\ [](\A k \in Conns :
            (conns[k].nc = "ok" /\ ~conns[k].closed /\ k \notin evict) =>
                FindConnection(conns[k].id) = k)

\* position of call x in the sequence of calls a
Pos(a, x) == CHOOSE p \in 1..Len(a) : a[p] = x

Delivered(k, i) ==
    \E c \in Calls :
        /\ calls[c].conn = k
        /\ \/ /\ calls[c].slot # <<>>
              /\ Head(calls[c].slot).msg.type = "Response"
              /\ Head(calls[c].slot).msg.id = i
           \/ /\ calls[c].got.type = "Response"
              /\ calls[c].got.id = i

\* C14: the reader removes the entry of a Response frame's id before it puts
\* the frame into the slot it found; the frame is put into that one slot and no
\* other; and a Response frame whose id is the id of a Response frame already
\* delivered on the connection finds no entry in the pending table.
C14_ResponseOnce ==
    [][\A k \in Conns :
          /\ (conns[k].rpc = "found" /\ conns'[k].rpc = "deliver") =>
                conns'[k].msgChans[conns[k].rmsg.id] = NoCall
          /\ (conns[k].rpc = "deliver" /\ conns'[k].rpc = "handler") =>
                /\ \A c \in Calls : calls'[c].slot # calls[c].slot => c = conns[k].rslot
                /\ calls'[conns[k].rslot].slot = <<MessageResp(conns[k].rmsg, "nil")>>
          /\ (conns[k].rpc = "read" /\ conns'[k].rpc = "found") =>
                ~Delivered(k, conns'[k].rmsg.id)]_vars

\* C15: a Response frame the reader hands to the handler without having put it
\* into a slot is one whose id has no entry in the pending table, and the
\* handler gets it with the UnexpectedResponse error; from the read to the end
\* of that handler call no Close() is made and the pending table and the result
\* slots stay as they are; and when the handler call ends the reader is at the
\* top of its loop, to read the next frame.
C15_UnexpectedResponse ==
    [][\A k \in Conns :
          /\ (conns[k].rpc = "read" /\ conns'[k].rpc = "handler"
                /\ conns'[k].rmsg.type = "Response") =>
                /\ conns[k].msgChans[conns'[k].rmsg.id] = NoCall
                /\ conns'[k].herr = "UnexpectedResponse"
                /\ conns'[k].closeCalls = conns[k].closeCalls
                /\ conns'[k].closed = conns[k].closed
                /\ conns'[k].msgChans = conns[k].msgChans
                /\ calls' = calls
          /\ (conns[k].rpc = "handler" /\ conns[k].herr = "UnexpectedResponse"
                /\ conns'[k].rpc # "handler") =>
                /\ conns'[k].rpc = "loop"
                /\ conns'[k].closeCalls = conns[k].closeCalls
                /\ conns'[k].closed = conns[k].closed
                /\ conns'[k].msgChans = conns[k].msgChans
                /\ calls' = calls]_vars

\* C16: a handler call that ends, with a failure or without, leaves the reader
\* task alive: the reader is at the top of its loop, or it has returned after
\* the Close() that follows a Close frame or a transport error; the writer task
\* and the rest of the connection are as the handler call found them.
C16_HandlerFailureTrapped ==
    [][\A k \in Conns :
          (conns[k].rpc = "handler" /\ conns'[k].rpc # "handler") =>
              /\ conns'[k].rpc \in {"loop", "done"}
              /\ conns'[k].rpc = "done" =>
                    (conns'[k].closed /\ (conns[k].herr = "WebsocketError"
                                            \/ conns[k].rmsg.type = "Close"))
              /\ conns'[k].wpc = conns[k].wpc
              /\ conns'[k].wch = conns[k].wch
              /\ conns'[k].msgChans = conns[k].msgChans]_vars

\* call c is a SyncRequest of connection k under id i that the writer has
\* written to the transport and whose caller still waits on its result slot
WrittenAndWaiting(c, k, i) ==
    /\ calls[c].conn = k
    /\ calls[c].type = "SyncRequest"
    /\ calls[c].msgId = i
    /\ calls[c].pc = "wait"
    /\ calls[c].slot = <<>>
    /\ \E n \in 1..Len(conns[k].written) : conns[k].written[n].call = c

\* C17: when the reader reads a Response frame whose id is the id of a
\* SyncRequest already written to the transport, with its caller still waiting,
\* it finds an entry for the id in the pending table, the entry of such a
\* caller, and does not hand the frame to the handler as an unexpected response.
C17_EntryBeforeResponse ==
    [][\A k \in Conns :
          (/\ conns[k].rpc = "read"
           /\ conns'[k].rpc \in {"found", "handler"}
           /\ conns'[k].rmsg.type = "Response"
           /\ \E c \in Calls : WrittenAndWaiting(c, k, conns'[k].rmsg.id)) =>
              /\ conns'[k].rpc = "found"
              /\ WrittenAndWaiting(conns'[k].rslot, k, conns'[k].rmsg.id)]_vars

\* C18: when sendWsMessage has failed the writer puts the error into the
\* request's result slot, calls Close() after a WebsocketError (a failed write
\* or a failed SetWriteDeadline) and only then, and is back at the top of its
\* loop for the next inbox entry; and a caller that takes a message from its
\* slot returns the error in it.
C18_WriterError ==
    [][/\ \A k \in Conns :
             (conns[k].wpc = "post" /\ conns[k].werr # "nil" /\ conns'[k].wpc # "post") =>
                 /\ calls'[conns[k].wreq].slot = <<MessageResp(NoFrame, conns[k].werr)>>
                 /\ conns'[k].wpc = "loop"
                 /\ conns'[k].wch = conns[k].wch
                 /\ conns[k].werr = "WebsocketError" =>
                       /\ conns'[k].closed
                       /\ conns'[k].closeCalls = Min(conns[k].closeCalls + 1, MaxCloseCalls)
                 /\ conns[k].werr # "WebsocketError" =>
                       /\ conns'[k].closed = conns[k].closed
                       /\ conns'[k].closeCalls = conns[k].closeCalls
                       /\ conns'[k].nWch = conns[k].nWch
       /\ \A c \in Calls :
             (calls[c].slot # <<>> /\ calls'[c].slot = <<>>) =>
                 /\ calls'[c].pc = "done"
                 /\ calls'[c].err = Head(calls[c].slot).err]_vars

\* one caller has got the encoding error on a connection that stayed open, and
\* the writer went on: the next caller got the transport error, which closed it
C18_Witness ==
    /\ calls[1].pc = "done" /\ calls[1].err = "MarshalError"
    /\ calls[2].pc = "done" /\ calls[2].err = "WebsocketError"
    /\ calls[2].conn = calls[1].conn
    /\ conns[calls[1].conn].closed
    /\ conns[calls[1].conn].closeCalls = 1

\* C19: a newConnection call that has returned the error of register has made
\* a Close() call on the engine it built and has started neither task of it;
\* and from its return on no shard holds that connection: findConnection of its
\* identifier does not return it and count() does not count it.
C19_RegisterFailure ==
    \A k \in Conns :
        conns[k].nc = "failed" =>
            /\ conns[k].closed
            /\ conns[k].closeCalls >= 1
            /\ conns[k].rpc = "none"
            /\ conns[k].wpc = "none"
            /\ conns[k].wg = 0
            /\ FindConnection(conns[k].id) # k
            /\ \A s \in ShardIdx, i \in Ids : wsconns[s][i] # k
            /\ Count = Cardinality({j \in Conns \ {k} :
                                     \E s \in ShardIdx, i \in Ids : wsconns[s][i] = j})

\* a failed registration next to a connection of another identifier that
\* stays registered
C19_Witness ==
    \E k \in Conns :
        /\ conns[k].nc = "failed"
        /\ Count = 1

\* call c has taken a message from its result slot (these results come from
\* nowhere else)
Received(c) ==
    calls[c].pc = "done" /\ calls[c].err \in {"nil", "WebsocketError", "MarshalError"}

\* C20: a result slot never holds more than one message and gets none after
\* its message was taken; whenever the reader or the writer is about to put a
\* message into a slot the slot is empty and has never held a message, so the
\* put does not block; and the message of a SyncRequest's slot is an error from
\* the writer or a Response from the reader, that of any other slot is from the
\* writer.
C20_SlotOnce ==
    /\ \A c \in Calls :
          /\ Len(calls[c].slot) <= 1
          /\ Received(c) => calls[c].slot = <<>>
          /\ calls[c].slot # <<>> =>
                IF Head(calls[c].slot).msg = NoFrame
                THEN calls[c].type = "SyncRequest" => Head(calls[c].slot).err # "nil"
                ELSE calls[c].type = "SyncRequest" /\ Head(calls[c].slot).err = "nil"
    /\ \A k \in Conns :
          /\ conns[k].rpc = "deliver" =>
                /\ calls[conns[k].rslot].slot = <<>>
                /\ ~Received(conns[k].rslot)
          /\ (conns[k].wpc = "post"
                /\ (conns[k].werr # "nil" \/ calls[conns[k].wreq].type # "SyncRequest")) =>
                /\ calls[conns[k].wreq].slot = <<>>
                /\ ~Received(conns[k].wreq)

\* a message put into the slot of a caller that had already returned on the
\* response timeout
C20_Witness ==
    \E c \in Calls :
        /\ calls[c].pc = "done"
        /\ calls[c].err = "ResponseTimeout"
        /\ calls[c].slot # <<>>
====
